---- MODULE Spec2Model ----
(***************************************************************************)
(* A model of goimportssort (src/goimportssort.go): the per-file pipeline  *)
(* process -> convertImportsToSlice -> sortImports -> convertImportsToGo   *)
(* -> replaceImports, the driver processFile / goImportsSortMain, and the  *)
(* concurrent directory walk walkDir.                                      *)
(*                                                                         *)
(* Go strings and byte slices are TLA+ strings: Len, SubSeq and \o are the *)
(* byte-level operations, so the text splice of replaceImports and the     *)
(* substring test of convertImportsToSlice are computed on the bytes.      *)
(***************************************************************************)
EXTENDS Integers, Sequences, FiniteSets

(***************************************************************************)
(* Byte strings.                                                           *)
(***************************************************************************)

\* The printable ASCII characters in code order (32 .. 126, without the
\* backquote, which no import path, identifier or order flag of the model
\* holds): Go compares strings byte by byte, so the rank of a character
\* in this table is its order in Go.
Ascii ==
  " !\"#$%&'()*+,-./0123456789:;<=>?@ABCDEFGHIJKLMNOPQRSTUVWXYZ[\\]^_abcdefghijklmnopqrstuvwxyz{|}~"

Ord(c) == CHOOSE i \in 1..Len(Ascii) : SubSeq(Ascii, i, i) = c

Char(s, i) == SubSeq(s, i, i)

\* Go's s < t on strings: lexicographic on bytes, a proper prefix is smaller.
RECURSIVE StrLessFrom(_, _, _)
StrLessFrom(s, t, i) ==
  IF i > Len(t) THEN FALSE
  ELSE IF i > Len(s) THEN TRUE
  ELSE IF Char(s, i) # Char(t, i) THEN Ord(Char(s, i)) < Ord(Char(t, i))
  ELSE StrLessFrom(s, t, i + 1)

StrLess(s, t) == StrLessFrom(s, t, 1)

HasPrefix(s, p) == Len(p) <= Len(s) /\ SubSeq(s, 1, Len(p)) = p

\* strings.Index / bytes.Index: 1-based position of the first occurrence of
\* sub at or after position from, 0 when there is none.
RECURSIVE IndexFrom(_, _, _)
IndexFrom(s, sub, from) ==
  IF from + Len(sub) - 1 > Len(s) THEN 0
  ELSE IF SubSeq(s, from, from + Len(sub) - 1) = sub THEN from
  ELSE IndexFrom(s, sub, from + 1)

Index(s, sub) == IndexFrom(s, sub, 1)

Drop(s, n) == SubSeq(s, n + 1, Len(s))

\* strings.Count: the number of non-overlapping occurrences of sub in s;
\* for the empty sub, Go answers 1 + the number of characters.
RECURSIVE Count(_, _)
Count(s, sub) ==
  IF sub = "" THEN Len(s) + 1
  ELSE LET i == Index(s, sub)
       IN  IF i = 0 THEN 0 ELSE 1 + Count(Drop(s, i + Len(sub) - 1), sub)

\* bytes.Replace(s, old, new, 1): the first occurrence of old becomes new;
\* s itself when old does not occur.
ReplaceFirst(s, old, new) ==
  LET i == Index(s, old)
  IN  IF i = 0 THEN s
      ELSE SubSeq(s, 1, i - 1) \o new \o Drop(s, i + Len(old) - 1)

\* strings.Trim(s, cutset) for a one-character cutset: every leading and
\* trailing occurrence is removed.
RECURSIVE TrimLeft(_, _)
TrimLeft(s, c) == IF Len(s) > 0 /\ Char(s, 1) = c THEN TrimLeft(Drop(s, 1), c) ELSE s

RECURSIVE TrimRight(_, _)
TrimRight(s, c) ==
  IF Len(s) > 0 /\ Char(s, Len(s)) = c THEN TrimRight(SubSeq(s, 1, Len(s) - 1), c) ELSE s

Trim(s, c) == TrimRight(TrimLeft(s, c), c)

\* The lines of a text: split at "\n"; a last line without its newline counts.
RECURSIVE SplitLines(_)
SplitLines(s) ==
  IF s = "" THEN << >>
  ELSE LET i == Index(s, "\n")
       IN  IF i = 0 THEN << s >>
           ELSE << SubSeq(s, 1, i - 1) >> \o SplitLines(Drop(s, i))

(***************************************************************************)
(* The parser adapter: decorator.ParseFile and decorator.Fprint of         *)
(* github.com/dave/dst, on the part of Go the model's files are written    *)
(* in: comment and blank lines, the package clause, import declarations    *)
(* (one spec per line, grouped in parentheses or not) and one-line         *)
(* declarations of other kinds.                                            *)
(***************************************************************************)

StripIndent(l) == TrimLeft(TrimLeft(l, "\t"), " ")

IsBlankLine(l) == StripIndent(l) = ""

IsCommentLine(l) == HasPrefix(StripIndent(l), "//")

\* One import spec, [alias] "path" [// comment]: Path.Value keeps its quotes,
\* Name is the alias ("" for none).  ok is FALSE when no quoted path is there.
ParseImportSpec(l) ==
  LET t  == StripIndent(l)
      q1 == Index(t, "\"")
      q2 == IF q1 = 0 THEN 0 ELSE IndexFrom(t, "\"", q1 + 1)
  IN  IF q1 = 0 \/ q2 = 0
      THEN [ok |-> FALSE, path |-> "", localReference |-> ""]
      ELSE [ok |-> TRUE,
            path |-> SubSeq(t, q1, q2),
            localReference |-> TrimRight(SubSeq(t, 1, q1 - 1), " ")]

importSpec(r) == [path |-> r.path, localReference |-> r.localReference]

\* The token a declaration starts with (func, var, ...).
DeclTok(text) ==
  LET i == Index(text, " ") IN IF i = 0 THEN text ELSE SubSeq(text, 1, i - 1)

\* The parser's state while it reads the lines: phase "head" before the
\* package clause, "body" after it, "block" inside import ( ... ).
\* pend holds the comment lines read since the last declaration, and
\* pendAdj says they started on the line right after it; gap says a blank
\* line was read since then.
ParseStart ==
  [phase |-> "head", err |-> "", head |-> "", name |-> "", decls |-> << >>,
   pend |-> "", pendAdj |-> FALSE, gap |-> FALSE, sep |-> FALSE,
   seenOther |-> FALSE, doc |-> "", specs |-> << >>]

NewDecl(kind, specs, text, doc, sep) ==
  [kind |-> kind, specs |-> specs, text |-> text, doc |-> doc, end |-> "", sep |-> sep]

\* Comments that follow a declaration with no blank line between, and are
\* themselves followed by a blank line, decorate that declaration's end.
AttachEnd(st) ==
  IF st.pend # "" /\ st.pendAdj /\ st.decls # << >>
  THEN [st EXCEPT !.decls[Len(st.decls)].end = @ \o st.pend,
                  !.pend = "", !.pendAdj = FALSE]
  ELSE st

AfterDecl(st, d) ==
  [st EXCEPT !.decls = Append(@, d), !.pend = "", !.pendAdj = FALSE,
             !.gap = FALSE, !.sep = FALSE, !.doc = "", !.specs = << >>,
             !.phase = "body", !.seenOther = @ \/ d.kind = "other"]

ParseLine(st, l) ==
  IF st.err # "" THEN st
  ELSE IF st.phase = "head" THEN
    IF IsBlankLine(l) \/ IsCommentLine(l) THEN [st EXCEPT !.head = @ \o l \o "\n"]
    ELSE IF HasPrefix(l, "package ") /\ Len(l) > Len("package ")
      THEN [st EXCEPT !.phase = "body", !.name = TrimRight(Drop(l, Len("package ")), " ")]
    ELSE [st EXCEPT !.err = "expected 'package'"]
  ELSE IF st.phase = "block" THEN
    IF IsBlankLine(l) \/ IsCommentLine(l) THEN st
    ELSE IF l = ")" THEN AfterDecl(st, NewDecl("import", st.specs, "", st.doc, st.sep))
    ELSE LET r == ParseImportSpec(l)
         IN  IF r.ok THEN [st EXCEPT !.specs = Append(@, importSpec(r))]
             ELSE [st EXCEPT !.err = "expected import path"]
  ELSE \* body
    IF IsBlankLine(l) THEN [AttachEnd(st) EXCEPT !.gap = TRUE]
    ELSE IF IsCommentLine(l) THEN
      [st EXCEPT !.pend = @ \o l \o "\n",
                 !.pendAdj = IF st.pend = "" THEN ~st.gap ELSE @,
                 !.sep = IF st.pend = "" THEN st.gap ELSE @]
    ELSE IF HasPrefix(l, "package ") \/ HasPrefix(l, ")")
      THEN [st EXCEPT !.err = "expected declaration"]
    ELSE IF HasPrefix(l, "import") /\ st.seenOther
      THEN [st EXCEPT !.err = "imports must appear before other declarations"]
    ELSE LET sep == IF st.pend = "" THEN st.gap ELSE st.sep
         IN  IF l = "import ("
             THEN [st EXCEPT !.phase = "block", !.doc = st.pend, !.sep = sep, !.specs = << >>]
             ELSE IF HasPrefix(l, "import ")
             THEN LET r == ParseImportSpec(Drop(l, Len("import ")))
                  IN  IF r.ok
                      THEN AfterDecl(st, NewDecl("import", << importSpec(r) >>, "", st.pend, sep))
                      ELSE [st EXCEPT !.err = "expected import path"]
             ELSE AfterDecl(st, NewDecl("other", << >>, l, st.pend, sep))

RECURSIVE ParseLines(_, _)
ParseLines(st, lines) ==
  IF lines = << >> THEN st ELSE ParseLines(ParseLine(st, Head(lines)), Tail(lines))

RECURSIVE FlattenSpecs(_)
FlattenSpecs(decls) ==
  IF decls = << >> THEN << >> ELSE Head(decls).specs \o FlattenSpecs(Tail(decls))

NoNode == [head |-> "", name |-> "", decls |-> << >>, imports |-> << >>]

\* decorator.ParseFile: the file's tree (the comments before the package
\* clause, the package name, the declarations in source order with their
\* comments, and node.Imports: every import spec in source order), or a
\* parse error.
ParseFile(src) ==
  LET st  == ParseLines(ParseStart, SplitLines(src))
      fin == IF st.pend # "" /\ st.decls # << >>
             THEN [st EXCEPT !.decls[Len(st.decls)].end = @ \o st.pend]
             ELSE st
      err == IF st.err # "" THEN st.err
             ELSE IF st.phase = "head" THEN "expected 'package'"
             ELSE IF st.phase = "block" THEN "expected ')'"
             ELSE ""
  IN  IF err # "" THEN [err |-> "parse: " \o err, node |-> NoNode]
      ELSE [err |-> "",
            node |-> [head |-> fin.head, name |-> fin.name, decls |-> fin.decls,
                      imports |-> FlattenSpecs(fin.decls)]]

\* dstutil.Apply with cr.Delete() on every GenDecl whose Tok is IMPORT: the
\* declaration leaves the tree with the comments that decorate it.
RECURSIVE DeleteImportDecls(_)
DeleteImportDecls(decls) ==
  IF decls = << >> THEN << >>
  ELSE IF Head(decls).kind = "import" THEN DeleteImportDecls(Tail(decls))
  ELSE << Head(decls) >> \o DeleteImportDecls(Tail(decls))

\* go/printer's declList: a blank line before the first declaration, before
\* one whose token differs from the previous one's, before one with a doc
\* comment, and where the source had one; a single line break otherwise.
RECURSIVE PrintDecls(_, _)
PrintDecls(decls, prevTok) ==
  IF decls = << >> THEN ""
  ELSE LET d == Head(decls)
           tok == DeclTok(d.text)
           blank == prevTok # tok \/ d.doc # "" \/ d.sep
       IN  (IF blank THEN "\n" ELSE "") \o d.doc \o d.text \o "\n" \o d.end
           \o PrintDecls(Tail(decls), tok)

\* decorator.Fprint of a tree that holds no import declaration.
Fprint(node) ==
  node.head \o "package " \o node.name \o "\n" \o PrintDecls(node.decls, "")

(***************************************************************************)
(* The pipeline's functions.                                               *)
(***************************************************************************)

DefaultOrder == "iel"

\* impModel.string
string(m) ==
  IF m.localReference = "" THEN m.path ELSE m.localReference \o " " \o m.path

\* sortString: the characters of str in ascending order (sort.Slice on the
\* runes), here by insertion.
RECURSIVE InsertChar(_, _)
InsertChar(c, sorted) ==
  IF sorted = "" THEN c
  ELSE IF Ord(c) < Ord(Char(sorted, 1)) THEN c \o sorted
  ELSE Char(sorted, 1) \o InsertChar(c, Drop(sorted, 1))

RECURSIVE sortString(_)
sortString(str) ==
  IF str = "" THEN "" ELSE InsertChar(Char(str, 1), sortString(Drop(str, 1)))

\* A faulty check: only the number of characters is compared.
ValidatedOrderByLength(o) ==
  IF Len(o) # Len(DefaultOrder) THEN DefaultOrder ELSE o

\* The check of goImportsSortMain: an order whose sorted characters differ
\* from those of the default is replaced by the default.
ValidatedOrder(o) ==
  IF sortString(o) # sortString(DefaultOrder) THEN DefaultOrder ELSE o

\* isStandardPackage
isStandardPackage(pkgs, pkg) == pkg \in pkgs

\* A faulty comparison: the alias does not break ties.
ImportLessByPathOnly(a, b) == StrLess(a.path, b.path)

\* The comparison sortImports hands to sort.Slice: by path, then by alias.
ImportLess(a, b) ==
  IF a.path # b.path THEN StrLess(a.path, b.path)
  ELSE StrLess(a.localReference, b.localReference)

\* sort.Slice on one category, as an insertion sort with that comparison.
RECURSIVE InsertImport(_, _)
InsertImport(m, sorted) ==
  IF sorted = << >> THEN << m >>
  ELSE IF ImportLess(m, Head(sorted)) THEN << m >> \o sorted
  ELSE << Head(sorted) >> \o InsertImport(m, Tail(sorted))

RECURSIVE SortCategory(_)
SortCategory(imps) ==
  IF imps = << >> THEN << >> ELSE InsertImport(Head(imps), SortCategory(Tail(imps)))

\* sortImports
sortImports(imports) == [x \in 1..Len(imports) |-> SortCategory(imports[x])]

RECURSIVE ImportLines(_)
ImportLines(imps) ==
  IF imps = << >> THEN ""
  ELSE "\t" \o string(Head(imps)) \o "\n" \o ImportLines(Tail(imps))

\* A faulty rendering: an empty category still starts a group.
RECURSIVE CategoriesToGoWithPlaceholders(_)
CategoriesToGoWithPlaceholders(imports) ==
  IF imports = << >> THEN ""
  ELSE "\n" \o ImportLines(Head(imports)) \o CategoriesToGoWithPlaceholders(Tail(imports))

RECURSIVE CategoriesToGo(_)
CategoriesToGo(imports) ==
  IF imports = << >> THEN ""
  ELSE (IF Head(imports) = << >> THEN "" ELSE "\n" \o ImportLines(Head(imports)))
       \o CategoriesToGo(Tail(imports))

\* convertImportsToGo
convertImportsToGo(imports) == "import (" \o CategoriesToGo(imports) \o ")"

\* countImports
RECURSIVE countImports(_)
countImports(impModels) ==
  IF impModels = << >> THEN 0 ELSE Len(Head(impModels)) + countImports(Tail(impModels))

\* A faulty loop: the pointers keep the slots they start with.
BucketPointersIgnoringOrder(chars, i, p) == p

\* The loop of convertImportsToSlice over the order's first three characters:
\* inbuild, external and local are the slots (1..3) the three pointers refer
\* to; slot i+1 is importCategories[i].  A character other than i, e, l ends
\* the function with an error, a missing one is an index out of range.
RECURSIVE BucketPointers(_, _, _)
BucketPointers(chars, i, p) ==
  IF i > 3 \/ p.err # "" THEN p
  ELSE IF i > Len(chars) THEN [p EXCEPT !.err = "panic: index out of range"]
  ELSE BucketPointers(chars, i + 1,
         CASE Char(chars, i) = "l" -> [p EXCEPT !.local = i]
           [] Char(chars, i) = "e" -> [p EXCEPT !.external = i]
           [] Char(chars, i) = "i" -> [p EXCEPT !.inbuild = i]
           [] OTHER -> [p EXCEPT !.err = "order: cannot parse the order argument given"])

InitialPointers == [inbuild |-> 1, external |-> 2, local |-> 3, err |-> ""]

\* A faulty classification: the standard-package test comes first.
CategoryOfStandardFirst(p, imp, prefix, pkgs) ==
  IF isStandardPackage(pkgs, Trim(imp.path, "\"")) THEN p.inbuild
  ELSE IF prefix # "" /\ Count(imp.path, prefix) > 0 THEN p.local
  ELSE p.external

\* The slot an import is appended to: local when the prefix is not empty and
\* occurs in the quoted path, inbuild when the unquoted path is a standard
\* package, external otherwise.
CategoryOf(p, imp, prefix, pkgs) ==
  IF prefix # "" /\ Count(imp.path, prefix) > 0 THEN p.local
  ELSE IF isStandardPackage(pkgs, Trim(imp.path, "\"")) THEN p.inbuild
  ELSE p.external

\* A faulty loop: an import whose path is already in its slot is left out.
RECURSIVE AppendImportsOncePerPath(_, _, _, _, _)
AppendImportsOncePerPath(cats, p, imps, prefix, pkgs) ==
  IF imps = << >> THEN cats
  ELSE LET x == CategoryOf(p, Head(imps), prefix, pkgs)
           seen == \E i \in 1..Len(cats[x]) : cats[x][i].path = Head(imps).path
       IN  AppendImportsOncePerPath(
             IF seen THEN cats ELSE [cats EXCEPT ![x] = Append(@, Head(imps))],
             p, Tail(imps), prefix, pkgs)

\* The loop of convertImportsToSlice over node.Imports: each import is
\* appended to the slot its pointer refers to.
RECURSIVE AppendImports(_, _, _, _, _)
AppendImports(cats, p, imps, prefix, pkgs) ==
  IF imps = << >> THEN cats
  ELSE AppendImports(
         [cats EXCEPT ![CategoryOf(p, Head(imps), prefix, pkgs)] = Append(@, Head(imps))],
         p, Tail(imps), prefix, pkgs)

EmptyCategories == << << >>, << >>, << >> >>

\* convertImportsToSlice
convertImportsToSlice(node, ord, prefix, pkgs) ==
  LET p == BucketPointers(ord, 1, InitialPointers)
  IN  IF p.err # "" THEN [err |-> p.err, cats |-> EmptyCategories]
      ELSE [err |-> "",
            cats |-> AppendImports(EmptyCategories, p, node.imports, prefix, pkgs)]

\* replaceImports: the import declarations leave the tree, the rest is
\* printed, and the first occurrence of "package <name>" in the printed text
\* is replaced by itself, a blank line and the new import block.
replaceImports(newImports, node) ==
  LET buf == Fprint([node EXCEPT !.decls = DeleteImportDecls(@)])
      pkg == "package " \o node.name
  IN  ReplaceFirst(buf, pkg, pkg \o "\n\n" \o newImports)

\* process, for a standard-package set that is already loaded: the value
\* and the error it returns.
process(src, ord, prefix, pkgs) ==
  LET parsed == ParseFile(src)
      conv   == convertImportsToSlice(parsed.node, ord, prefix, pkgs)
  IN  IF parsed.err # "" THEN [res |-> "", err |-> parsed.err]
      ELSE IF conv.err # "" THEN [res |-> "", err |-> conv.err]
      ELSE IF countImports(conv.cats) = 0 THEN [res |-> src, err |-> ""]
      ELSE [res |-> replaceImports(convertImportsToGo(sortImports(conv.cats)), parsed.node),
            err |-> ""]

(***************************************************************************)
(* The inputs of the model: command lines, the environment and files.      *)
(***************************************************************************)

\* The bounds of the model.
MaxImports  == 3    \* import specs in a generated file
MaxOrderLen == 4    \* characters of a generated -o value
MaxRuns     == 2    \* runs of the program over the same file

Imp(path, alias) == [path |-> "\"" \o path \o "\"", localReference |-> alias]

\* The imports files are written with: two standard packages, a third-party
\* package without and with an alias, and a package of the project.
ImportPool ==
  { Imp("fmt", ""), Imp("net/http", ""), Imp("lib/y", ""), Imp("lib/y", "Z"),
    Imp("acme/x", "") }

\* What packages.Load(nil, "std") lists.
StdIndex == { "fmt", "net/http", "os" }

RECURSIVE SeqsUpTo(_, _)
SeqsUpTo(S, n) ==
  IF n = 0 THEN { << >> }
  ELSE LET shorter == SeqsUpTo(S, n - 1)
       IN  shorter \cup { Append(q, x) : q \in shorter, x \in S }

RECURSIVE StringsUpTo(_, _)
StringsUpTo(C, n) ==
  IF n = 0 THEN { "" }
  ELSE LET shorter == StringsUpTo(C, n - 1)
       IN  shorter \cup { q \o c : q \in shorter, c \in C }

Heads == { "", "// tool\n", "// package main docs\n" }

Tails == { "", "\nfunc main() {}\n", "\n// doc\nfunc main() {}\nvar x = 1" }

Layouts == { "block", "single", "commented" }

RECURSIVE SingleImports(_)
SingleImports(imps) ==
  IF imps = << >> THEN ""
  ELSE "import " \o string(Head(imps)) \o "\n" \o SingleImports(Tail(imps))

RECURSIVE CommentedImports(_)
CommentedImports(imps) ==
  IF imps = << >> THEN ""
  ELSE "\t" \o string(Head(imps)) \o " // c\n\n" \o CommentedImports(Tail(imps))

\* A source file: comments, the package clause, the imports in source order
\* in one of three layouts, and the rest of the file.  The commented layout
\* has a comment above the import declaration, one on every spec and, when
\* declarations follow, one on the line after the closing parenthesis.
Source(head, layout, imps, tail) ==
  head \o "package main\n"
  \o (IF imps = << >> THEN ""
      ELSE IF layout = "block" THEN "\nimport (\n" \o ImportLines(imps) \o ")\n"
      ELSE IF layout = "single" THEN "\n" \o SingleImports(imps)
      ELSE "// deps\nimport (\n" \o CommentedImports(imps) \o ")\n"
           \o (IF tail = "" THEN "" ELSE "// end\n"))
  \o tail

OrderPermutations == { "iel", "ile", "eil", "eli", "lie", "lei" }

OrderChars == { "i", "e", "l", " " }

Input(o, local, l, w, module, file) ==
  [o |-> o, local |-> local, l |-> l, w |-> w, module |-> module, file |-> file]

\* Every import sequence under every order, and under every -local value
\* and module name.
ClassifyInputs ==
  { Input(o, "acme", FALSE, TRUE, "", Source("", "block", imps, "\nfunc main() {}\n")) :
      o \in OrderPermutations, imps \in SeqsUpTo(ImportPool, MaxImports) }
  \cup
  { Input(DefaultOrder, pm[1], FALSE, TRUE, pm[2],
          Source("", "block", imps, "\nfunc main() {}\n")) :
      pm \in { <<"net", "">>, <<"acme,net", "">>, <<"", "">>, <<"", "acme">> },
      imps \in SeqsUpTo(ImportPool, MaxImports) }

\* Every layout of a file, under every combination of -l and -w.
LayoutInputs ==
  { Input(DefaultOrder, "acme", l, w, "", Source(h, lay, imps, t)) :
      l \in BOOLEAN, w \in BOOLEAN, h \in Heads, lay \in Layouts, t \in Tails,
      imps \in { << >>, << Imp("fmt", "") >>, << Imp("lib/y", "Z"), Imp("fmt", "") >> } }

\* Every -o value up to MaxOrderLen characters.
OrderInputs ==
  { Input(o, "acme", FALSE, TRUE, "",
          Source("", "single", << Imp("acme/x", ""), Imp("lib/y", ""), Imp("fmt", "") >>, "")) :
      o \in StringsUpTo(OrderChars, MaxOrderLen) }

Inputs == ClassifyInputs \cup LayoutInputs \cup OrderInputs

(***************************************************************************)
(* The program's state.                                                    *)
(***************************************************************************)

VARIABLES
  args,             \* the command line: -o, -local, -l, -w (never changes)
  moduleName,       \* what getModuleName finds in go.mod ("" for nothing)
  disk,             \* the content of the file named on the command line
  order,            \* *order
  localPrefix,      \* *localPrefix
  list,             \* *list
  write,            \* *write
  standardPackages, \* the keys of the standardPackages map
  src,              \* processFile: the bytes read
  node,             \* process: the parsed file
  convertedImports, \* process: importCategories, then sortedImports
  convertedToGo,    \* process: the new import block
  res,              \* what process returned
  err,              \* the error of the run so far ("" for nil)
  stdout,           \* what processFile printed
  wrote,            \* whether processFile called os.WriteFile
  pc,               \* where the run is
  run,              \* the number of the run
  prev,             \* the previous run's src, res and err
  \* walkDir
  fileFails,        \* per .go file of the directory: processFile returns an error
  wpc,              \* where walkDir (then main) is
  walked,           \* the files filepath.Walk has visited
  mRead,            \* the value of result read as Append's argument (-1: not yet)
  tpc,              \* per file: where its processFileAsync goroutine is
  cpc,              \* where the goroutine ranging over errChan is
  schmutz,          \* the value it received last (0: nil, f: the error of file f)
  cRead,            \* the value of result it read as Append's argument
  closed,           \* errChan is closed
  wg,               \* the WaitGroup's counter
  heap,             \* the multierror.Error values allocated: their Errors
  result,           \* walkDir's result: 0 for nil, or an index of heap
  walkRet,          \* what walkDir returned
  fatal,            \* main called log.Fatal
  \* goImportsSortMain over its path arguments
  paths,            \* what parseFlags returned: per path, what is found there
  mpc,              \* where goImportsSortMain is
  pathIdx,          \* the position of the range loop in paths
  processed,        \* the positions of the paths given to walkDir or processFile
  mainRet,          \* what goImportsSortMain returned ("" for nil)
  \* concurrent calls of process
  lpc,              \* per task: where it is in process
  loaded,           \* per task: how many packages its range loop has stored
  standardPackagesMutex, \* the task holding the mutex (0: unlocked)
  query,            \* per task: the packages isStandardPackage is still to be asked about
  lookupOk          \* per task: the packages asked about, each with the ok returned

pvars == << args, moduleName, disk, order, localPrefix, list, write,
            standardPackages, src, node, convertedImports, convertedToGo, res,
            err, stdout, wrote, pc, run, prev >>

wvars == << fileFails, wpc, walked, mRead, tpc, cpc, schmutz, cRead, closed, wg,
            heap, result, walkRet, fatal >>

mvars == << paths, mpc, pathIdx, processed, mainRet >>

lvars == << lpc, loaded, standardPackagesMutex, query, lookupOk >>

vars == << pvars, wvars, mvars, lvars >>

NoPrev == [run |-> 0, src |-> "", res |-> "", err |-> ""]

MaxFiles == 2    \* .go files under the walked directory

Files == 1..MaxFiles

\* No directory is walked.
WalkIdle ==
  /\ fileFails = [f \in Files |-> FALSE]
  /\ wpc = "none"
  /\ walked = 0
  /\ mRead = -1
  /\ tpc = [f \in Files |-> "unborn"]
  /\ cpc = "unborn"
  /\ schmutz = 0
  /\ cRead = 0
  /\ closed = FALSE
  /\ wg = 0
  /\ heap = << >>
  /\ result = 0
  /\ walkRet = 0
  /\ fatal = FALSE

MaxPaths == 3    \* path arguments on the command line

MaxTasks == 2    \* concurrent calls of process

Tasks == 1..MaxTasks

\* The range loop over the path arguments is not looked at.
MainIdle ==
  /\ paths = << >>
  /\ mpc = "none"
  /\ pathIdx = 0
  /\ processed = << >>
  /\ mainRet = ""

\* No concurrent call of process is looked at.
LoadIdle ==
  /\ lpc = [t \in Tasks |-> "none"]
  /\ loaded = [t \in Tasks |-> 0]
  /\ standardPackagesMutex = 0
  /\ query = [t \in Tasks |-> << >>]
  /\ lookupOk = [t \in Tasks |-> << >>]

\* A process that has just started: the flag variables hold their defaults.
Init ==
  \E inp \in Inputs :
    /\ args = [o |-> inp.o, local |-> inp.local, l |-> inp.l, w |-> inp.w]
    /\ moduleName = inp.module
    /\ disk = inp.file
    /\ order = DefaultOrder
    /\ localPrefix = ""
    /\ list = FALSE
    /\ write = FALSE
    /\ standardPackages = {}
    /\ src = ""
    /\ node = NoNode
    /\ convertedImports = EmptyCategories
    /\ convertedToGo = ""
    /\ res = ""
    /\ err = ""
    /\ stdout = << >>
    /\ wrote = FALSE
    /\ pc = "main"
    /\ run = 1
    /\ prev = NoPrev
    /\ WalkIdle
    /\ MainIdle
    /\ LoadIdle

\* goImportsSortMain up to the call of processFile: parseFlags, the check of
\* the order, the module name as the local prefix when -local is empty.
GoImportsSortMain ==
  /\ pc = "main"
  /\ order' = ValidatedOrder(args.o)
  /\ localPrefix' = IF args.local = "" /\ moduleName # "" THEN moduleName ELSE args.local
  /\ list' = args.l
  /\ write' = args.w
  /\ pc' = "processFile"
  /\ UNCHANGED << args, moduleName, disk, standardPackages, src, node,
                  convertedImports, convertedToGo, res, err, stdout, wrote, run, prev, wvars, mvars, lvars >>

\* processFile: os.Open and io.ReadAll, either of which may fail.
ReadFile ==
  /\ pc = "processFile"
  /\ \E ok \in BOOLEAN :
       IF ok THEN /\ src' = disk
                  /\ pc' = "process"
                  /\ err' = err
             ELSE /\ src' = src
                  /\ pc' = "exit"
                  /\ err' = "open: cannot read the file"
  /\ UNCHANGED << args, moduleName, disk, order, localPrefix, list, write,
                  standardPackages, node, convertedImports, convertedToGo, res,
                  stdout, wrote, run, prev, wvars, mvars, lvars >>

\* process: loadStandardPackages; packages.Load may fail, and then process
\* returns that error.
LoadStandardPackages ==
  /\ pc = "process"
  /\ \E ok \in BOOLEAN :
       IF ok THEN /\ standardPackages' = standardPackages \cup StdIndex
                  /\ pc' = "parse"
                  /\ err' = err
             ELSE /\ standardPackages' = standardPackages
                  /\ pc' = "exit"
                  /\ err' = "load: cannot list the standard packages"
  /\ UNCHANGED << args, moduleName, disk, order, localPrefix, list, write, src,
                  node, convertedImports, convertedToGo, res, stdout, wrote, run, prev, wvars, mvars, lvars >>

\* process: decorator.ParseFile.
ParseSource ==
  /\ pc = "parse"
  /\ LET parsed == ParseFile(src)
     IN  /\ node' = parsed.node
         /\ err' = parsed.err
         /\ pc' = IF parsed.err = "" THEN "convert" ELSE "exit"
  /\ UNCHANGED << args, moduleName, disk, order, localPrefix, list, write,
                  standardPackages, src, convertedImports, convertedToGo, res,
                  stdout, wrote, run, prev, wvars, mvars, lvars >>

\* A faulty process: a file without imports goes through the rewrite too.
ConvertImportsToSliceNoShortCircuit ==
  /\ pc = "convert"
  /\ LET conv == convertImportsToSlice(node, order, localPrefix, standardPackages)
     IN  /\ convertedImports' = conv.cats
         /\ err' = conv.err
         /\ pc' = IF conv.err # "" THEN "exit" ELSE "sort"
  /\ UNCHANGED << args, moduleName, disk, order, localPrefix, list, write,
                  standardPackages, src, node, convertedToGo, res, stdout, wrote,
                  run, prev, wvars, mvars, lvars >>

\* process: convertImportsToSlice, and the return of src when it found no
\* import.
ConvertImportsToSlice ==
  /\ pc = "convert"
  /\ LET conv == convertImportsToSlice(node, order, localPrefix, standardPackages)
     IN  /\ convertedImports' = conv.cats
         /\ err' = conv.err
         /\ pc' = IF conv.err # "" THEN "exit"
                  ELSE IF countImports(conv.cats) = 0 THEN "compare"
                  ELSE "sort"
         /\ res' = IF conv.err = "" /\ countImports(conv.cats) = 0 THEN src ELSE res
  /\ UNCHANGED << args, moduleName, disk, order, localPrefix, list, write,
                  standardPackages, src, node, convertedToGo, stdout, wrote, run, prev, wvars, mvars, lvars >>

\* process: sortImports.
SortImports ==
  /\ pc = "sort"
  /\ convertedImports' = sortImports(convertedImports)
  /\ pc' = "togo"
  /\ UNCHANGED << args, moduleName, disk, order, localPrefix, list, write,
                  standardPackages, src, node, convertedToGo, res, err, stdout,
                  wrote, run, prev, wvars, mvars, lvars >>

\* process: convertImportsToGo.
ConvertImportsToGo ==
  /\ pc = "togo"
  /\ convertedToGo' = convertImportsToGo(convertedImports)
  /\ pc' = "replace"
  /\ UNCHANGED << args, moduleName, disk, order, localPrefix, list, write,
                  standardPackages, src, node, convertedImports, res, err, stdout,
                  wrote, run, prev, wvars, mvars, lvars >>

\* process: replaceImports; its result is what process returns.
ReplaceImports ==
  /\ pc = "replace"
  /\ res' = replaceImports(convertedToGo, node)
  /\ node' = [node EXCEPT !.decls = DeleteImportDecls(@)]
  /\ pc' = "compare"
  /\ UNCHANGED << args, moduleName, disk, order, localPrefix, list, write,
                  standardPackages, src, convertedImports, convertedToGo, err,
                  stdout, wrote, run, prev, wvars, mvars, lvars >>

\* processFile after process returned without error: when the bytes changed,
\* print them under -l and write them under -w; os.WriteFile may fail.
CompareAndReport ==
  /\ pc = "compare"
  /\ pc' = "exit"
  /\ IF src # res
     THEN /\ stdout' = IF list THEN Append(stdout, res \o "\n") ELSE stdout
          /\ wrote' = write
          /\ \E ok \in (IF write THEN BOOLEAN ELSE { TRUE }) :
               IF ok THEN /\ disk' = IF write THEN res ELSE disk
                          /\ err' = err
                     ELSE /\ disk' = disk
                          /\ err' = "write: cannot write the file"
     ELSE UNCHANGED << stdout, wrote, disk, err >>
  /\ UNCHANGED << args, moduleName, order, localPrefix, list, write,
                  standardPackages, src, node, convertedImports, convertedToGo,
                  res, run, prev, wvars, mvars, lvars >>

\* After a run that ended without error the program is run again with the
\* same command line, on the file as that run left it.
RunAgain ==
  /\ pc = "exit"
  /\ err = ""
  /\ run < MaxRuns
  /\ run' = run + 1
  /\ prev' = [run |-> run, src |-> src, res |-> res, err |-> err]
  /\ order' = DefaultOrder
  /\ localPrefix' = ""
  /\ list' = FALSE
  /\ write' = FALSE
  /\ standardPackages' = {}
  /\ src' = ""
  /\ node' = NoNode
  /\ convertedImports' = EmptyCategories
  /\ convertedToGo' = ""
  /\ res' = ""
  /\ err' = ""
  /\ stdout' = << >>
  /\ wrote' = FALSE
  /\ pc' = "main"
  /\ UNCHANGED << args, moduleName, disk, wvars, mvars, lvars >>

Next ==
  \/ GoImportsSortMain
  \/ ReadFile
  \/ LoadStandardPackages
  \/ ParseSource
  \/ ConvertImportsToSlice
  \/ SortImports
  \/ ConvertImportsToGo
  \/ ReplaceImports
  \/ CompareAndReport
  \/ RunAgain

Spec == Init /\ [][Next]_vars

(***************************************************************************)
(* walkDir: the walking goroutine (main), one processFileAsync goroutine   *)
(* per .go file and the goroutine that ranges over errChan.  errChan is    *)
(* unbuffered: a send ends when the receiver takes the value.  result is   *)
(* read and written by main and by the receiving goroutine without any     *)
(* synchronisation; their reads and writes interleave.                     *)
(***************************************************************************)

\* multierror.Append(p, e) on a heap h, p being nil (0) or an *Error of h
\* and e nil (0) or an error: a nil p gets a new Error, a nil e is skipped,
\* the Error is extended in place and returned.
AppendHeap(h, p, e) ==
  LET errs == IF e = 0 THEN << >> ELSE << e >>
  IN  IF p = 0 THEN Append(h, errs) ELSE [h EXCEPT ![p] = @ \o errs]

AppendPtr(h, p) == IF p = 0 THEN Len(h) + 1 ELSE p

\* goImportsSortMain found a directory: walkDir is about to run.  Which
\* files fail is the input.
InitWalk ==
  /\ args = [o |-> DefaultOrder, local |-> "", l |-> FALSE, w |-> TRUE]
  /\ moduleName = ""
  /\ disk = ""
  /\ order = DefaultOrder
  /\ localPrefix = ""
  /\ list = FALSE
  /\ write = TRUE
  /\ standardPackages = {}
  /\ src = ""
  /\ node = NoNode
  /\ convertedImports = EmptyCategories
  /\ convertedToGo = ""
  /\ res = ""
  /\ err = ""
  /\ stdout = << >>
  /\ wrote = FALSE
  /\ pc = "walkDir"
  /\ run = 1
  /\ prev = NoPrev
  /\ fileFails \in [Files -> BOOLEAN]
  /\ wpc = "start"
  /\ walked = 0
  /\ mRead = -1
  /\ tpc = [f \in Files |-> "unborn"]
  /\ cpc = "unborn"
  /\ schmutz = 0
  /\ cRead = 0
  /\ closed = FALSE
  /\ wg = 0
  /\ heap = << >>
  /\ result = 0
  /\ walkRet = 0
  /\ fatal = FALSE
  /\ MainIdle
  /\ LoadIdle

\* walkDir: make(chan error), new(sync.WaitGroup), and the go statement of
\* the receiving goroutine.
WalkDirStart ==
  /\ wpc = "start"
  /\ wpc' = "operand"
  /\ cpc' = "recv"
  /\ UNCHANGED << pvars, mvars, lvars, fileFails, walked, mRead, tpc, schmutz, cRead, closed,
                  wg, heap, result, walkRet, fatal >>

\* result = multierror.Append(result, filepath.Walk(path, loop)): Go leaves
\* open whether the operand result is read before or after the call of
\* filepath.Walk.  Here it is read before.
MainReadBeforeWalk ==
  /\ wpc = "operand"
  /\ mRead' = result
  /\ wpc' = "walk"
  /\ UNCHANGED << pvars, mvars, lvars, fileFails, walked, tpc, cpc, schmutz, cRead, closed,
                  wg, heap, result, walkRet, fatal >>

\* filepath.Walk calls loop on the next .go file: wg.Add(1) and the go
\* statement of processFileAsync.  (The operand is read after the call, if
\* it was not read before.)
WalkVisit ==
  /\ wpc \in { "operand", "walk" }
  /\ walked < MaxFiles
  /\ wpc' = "walk"
  /\ walked' = walked + 1
  /\ wg' = wg + 1
  /\ tpc' = [tpc EXCEPT ![walked + 1] = "run"]
  /\ UNCHANGED << pvars, mvars, lvars, fileFails, mRead, cpc, schmutz, cRead, closed, heap,
                  result, walkRet, fatal >>

\* filepath.Walk returns (nil: loop never returns an error).
WalkReturns ==
  /\ wpc \in { "operand", "walk" }
  /\ walked = MaxFiles
  /\ wpc' = "append"
  /\ UNCHANGED << pvars, mvars, lvars, fileFails, walked, mRead, tpc, cpc, schmutz, cRead,
                  closed, wg, heap, result, walkRet, fatal >>

\* The operand result is read after the call of filepath.Walk.
MainReadAfterWalk ==
  /\ wpc = "append"
  /\ mRead = -1
  /\ mRead' = result
  /\ UNCHANGED << pvars, mvars, lvars, fileFails, wpc, walked, tpc, cpc, schmutz, cRead,
                  closed, wg, heap, result, walkRet, fatal >>

\* result = multierror.Append(<the value read>, nil).
MainAppend ==
  /\ wpc = "append"
  /\ mRead # -1
  /\ heap' = AppendHeap(heap, mRead, 0)
  /\ result' = AppendPtr(heap, mRead)
  /\ wpc' = "wait"
  /\ UNCHANGED << pvars, mvars, lvars, fileFails, walked, mRead, tpc, cpc, schmutz, cRead,
                  closed, wg, walkRet, fatal >>

\* wg.Wait() returns once the counter is zero.
WgWait ==
  /\ wpc = "wait"
  /\ wg = 0
  /\ wpc' = "close"
  /\ UNCHANGED << pvars, mvars, lvars, fileFails, walked, mRead, tpc, cpc, schmutz, cRead,
                  closed, wg, heap, result, walkRet, fatal >>

\* close(errChan)
CloseErrChan ==
  /\ wpc = "close"
  /\ closed' = TRUE
  /\ wpc' = "return"
  /\ UNCHANGED << pvars, mvars, lvars, fileFails, walked, mRead, tpc, cpc, schmutz, cRead,
                  wg, heap, result, walkRet, fatal >>

\* return result
WalkDirReturn ==
  /\ wpc = "return"
  /\ walkRet' = result
  /\ wpc' = "main"
  /\ UNCHANGED << pvars, mvars, lvars, fileFails, walked, mRead, tpc, cpc, schmutz, cRead,
                  closed, wg, heap, result, fatal >>

\* main: log.Fatal when the returned *multierror.Error holds an error;
\* the process ends either way, and its goroutines with it.
MainCheck ==
  /\ wpc = "main"
  /\ fatal' = (walkRet # 0 /\ heap[walkRet] # << >>)
  /\ wpc' = "exited"
  /\ UNCHANGED << pvars, mvars, lvars, fileFails, walked, mRead, tpc, cpc, schmutz, cRead,
                  closed, wg, heap, result, walkRet >>

\* processFileAsync: processFile ran; the goroutine is about to send.
TaskProcessFile(f) ==
  /\ wpc # "exited"
  /\ tpc[f] = "run"
  /\ tpc' = [tpc EXCEPT ![f] = "send"]
  /\ UNCHANGED << pvars, mvars, lvars, fileFails, wpc, walked, mRead, cpc, schmutz, cRead,
                  closed, wg, heap, result, walkRet, fatal >>

\* errChan <- err meets the receive of the range loop.
SendReceive(f) ==
  /\ wpc # "exited"
  /\ tpc[f] = "send"
  /\ cpc = "recv"
  /\ schmutz' = IF fileFails[f] THEN f ELSE 0
  /\ tpc' = [tpc EXCEPT ![f] = "sent"]
  /\ cpc' = "read"
  /\ UNCHANGED << pvars, mvars, lvars, fileFails, wpc, walked, mRead, cRead, closed, wg, heap,
                  result, walkRet, fatal >>

\* processFileAsync: the deferred wg.Done().
TaskDone(f) ==
  /\ wpc # "exited"
  /\ tpc[f] = "sent"
  /\ tpc' = [tpc EXCEPT ![f] = "done"]
  /\ wg' = wg - 1
  /\ UNCHANGED << pvars, mvars, lvars, fileFails, wpc, walked, mRead, cpc, schmutz, cRead,
                  closed, heap, result, walkRet, fatal >>

\* The receiving goroutine reads result as Append's argument.
CollectorRead ==
  /\ wpc # "exited"
  /\ cpc = "read"
  /\ cRead' = result
  /\ cpc' = "append"
  /\ UNCHANGED << pvars, mvars, lvars, fileFails, wpc, walked, mRead, tpc, schmutz, closed,
                  wg, heap, result, walkRet, fatal >>

\* result = multierror.Append(<the value read>, schmutz)
CollectorAppend ==
  /\ wpc # "exited"
  /\ cpc = "append"
  /\ heap' = AppendHeap(heap, cRead, schmutz)
  /\ result' = AppendPtr(heap, cRead)
  /\ cpc' = "recv"
  /\ UNCHANGED << pvars, mvars, lvars, fileFails, wpc, walked, mRead, tpc, schmutz, cRead,
                  closed, wg, walkRet, fatal >>

\* The range loop ends on the closed channel.
CollectorEnd ==
  /\ wpc # "exited"
  /\ cpc = "recv"
  /\ closed
  /\ cpc' = "end"
  /\ UNCHANGED << pvars, mvars, lvars, fileFails, wpc, walked, mRead, tpc, schmutz, cRead,
                  closed, wg, heap, result, walkRet, fatal >>

NextWalk ==
  \/ WalkDirStart
  \/ MainReadBeforeWalk
  \/ WalkVisit
  \/ WalkReturns
  \/ MainReadAfterWalk
  \/ MainAppend
  \/ WgWait
  \/ CloseErrChan
  \/ WalkDirReturn
  \/ MainCheck
  \/ \E f \in Files : TaskProcessFile(f)
  \/ \E f \in Files : SendReceive(f)
  \/ \E f \in Files : TaskDone(f)
  \/ CollectorRead
  \/ CollectorAppend
  \/ CollectorEnd

SpecWalk == InitWalk /\ [][NextWalk]_vars

(***************************************************************************)
(* goImportsSortMain over its path arguments.  What os.Stat finds at a     *)
(* path, and whether walkDir or processFile fails on it, is the input.     *)
(***************************************************************************)

\* What is at a path: nothing (os.Stat fails), a file processFile succeeds
\* or fails on, a directory walkDir succeeds or fails on.
PathKinds == { "missing", "file", "fileFails", "dir", "dirFails" }

\* The pipeline's variables while no file is read.
PipelineIdle ==
  /\ disk = ""
  /\ order = DefaultOrder
  /\ localPrefix = ""
  /\ list = FALSE
  /\ write = FALSE
  /\ standardPackages = {}
  /\ src = ""
  /\ node = NoNode
  /\ convertedImports = EmptyCategories
  /\ convertedToGo = ""
  /\ res = ""
  /\ err = ""
  /\ stdout = << >>
  /\ wrote = FALSE
  /\ pc = "none"
  /\ run = 1
  /\ prev = NoPrev

\* A process that has just started, with up to MaxPaths path arguments.
InitMain ==
  /\ \E o \in { DefaultOrder, "lie", "ii e" }, w \in BOOLEAN,
        pm \in { << "acme", "" >>, << "", "acme" >>, << "", "" >> } :
       /\ args = [o |-> o, local |-> pm[1], l |-> FALSE, w |-> w]
       /\ moduleName = pm[2]
  /\ PipelineIdle
  /\ WalkIdle
  /\ LoadIdle
  /\ paths \in SeqsUpTo(PathKinds, MaxPaths)
  /\ mpc = "start"
  /\ pathIdx = 0
  /\ processed = << >>
  /\ mainRet = ""

\* goImportsSortMain: parseFlags, the check of the order, the module name
\* as the local prefix when -local is empty.
MainParseFlags ==
  /\ mpc = "start"
  /\ order' = ValidatedOrder(args.o)
  /\ localPrefix' = IF args.local = "" /\ moduleName # "" THEN moduleName ELSE args.local
  /\ list' = args.l
  /\ write' = args.w
  /\ mpc' = "paths"
  /\ UNCHANGED << args, moduleName, disk, standardPackages, src, node,
                  convertedImports, convertedToGo, res, err, stdout, wrote, pc,
                  run, prev, wvars, lvars, paths, pathIdx, processed, mainRet >>

\* if len(paths) == 0: the error; otherwise the range loop starts.
MainCheckPaths ==
  /\ mpc = "paths"
  /\ IF Len(paths) = 0
     THEN /\ mainRet' = "please enter a path to fix"
          /\ mpc' = "returned"
          /\ pathIdx' = pathIdx
     ELSE /\ mainRet' = mainRet
          /\ mpc' = "range"
          /\ pathIdx' = 1
  /\ UNCHANGED << pvars, wvars, lvars, paths, processed >>

\* One pass of "for _, path := range paths": past the last path the function
\* returns nil; otherwise os.Stat, and every case of the switch returns:
\* the error of os.Stat, what walkDir returned for a directory, the error
\* of processFile for a file.  No case leaves the switch, so pathIdx is never
\* advanced.  (walkDir's *multierror.Error without errors counts as nil, as
\* main's ErrorOrNil makes it.)
MainRange ==
  /\ mpc = "range"
  /\ IF pathIdx > Len(paths)
     THEN /\ mainRet' = ""
          /\ processed' = processed
     ELSE LET path == paths[pathIdx]
          IN  CASE path = "missing" ->
                     /\ mainRet' = "stat: no such file or directory"
                     /\ processed' = processed
                [] path \in { "dir", "dirFails" } ->
                     /\ mainRet' = IF path = "dirFails" THEN "walkDir: errors occurred" ELSE ""
                     /\ processed' = Append(processed, pathIdx)
                [] OTHER ->
                     /\ mainRet' = IF path = "fileFails" THEN "processFile: error" ELSE ""
                     /\ processed' = Append(processed, pathIdx)
  /\ mpc' = "returned"
  /\ UNCHANGED << pvars, wvars, lvars, paths, pathIdx >>

\* main: log.Fatal when goImportsSortMain returned an error.
MainExit ==
  /\ mpc = "returned"
  /\ fatal' = (mainRet # "")
  /\ mpc' = "exited"
  /\ UNCHANGED << pvars, lvars, paths, pathIdx, processed, mainRet, fileFails,
                  wpc, walked, mRead, tpc, cpc, schmutz, cRead, closed, wg, heap,
                  result, walkRet >>

NextMain ==
  \/ MainParseFlags
  \/ MainCheckPaths
  \/ MainRange
  \/ MainExit

SpecMain == InitMain /\ [][NextMain]_vars

(***************************************************************************)
(* Concurrent calls of process, one per processFileAsync goroutine: each   *)
(* task runs loadStandardPackages and then asks isStandardPackage about    *)
(* the imports of its file.  A step is a lock, an access of the map or an  *)
(* unlock; the steps of the tasks interleave.                              *)
(***************************************************************************)

\* The slice packages.Load(nil, "std") returns, as PkgPaths.
StdList == << "fmt", "net/http", "os" >>

\* The import paths a task's file makes it ask about, in order.
Queries == { << >>, << "fmt" >>, << "lib/y", "os" >> }

\* A faulty mutex: Lock returns although another task holds it.
LockWithoutWaiting(t) == standardPackagesMutex' = t

\* standardPackagesMutex.Lock(): returns once no task holds the mutex.
Lock(t) == standardPackagesMutex = 0 /\ standardPackagesMutex' = t

\* standardPackagesMutex.Unlock()
Unlock(t) == standardPackagesMutex' = 0

\* Every task is about to call process; the map is empty.
InitLoad ==
  /\ args = [o |-> DefaultOrder, local |-> "", l |-> FALSE, w |-> TRUE]
  /\ moduleName = ""
  /\ PipelineIdle
  /\ WalkIdle
  /\ MainIdle
  /\ lpc = [t \in Tasks |-> "load"]
  /\ loaded = [t \in Tasks |-> 0]
  /\ standardPackagesMutex = 0
  /\ query \in [Tasks -> Queries]
  /\ lookupOk = [t \in Tasks |-> << >>]

\* loadStandardPackages: packages.Load, which may fail; process then
\* returns the error.
TaskLoad(t) ==
  /\ lpc[t] = "load"
  /\ \E loadOk \in BOOLEAN :
       lpc' = [lpc EXCEPT ![t] = IF loadOk THEN "lock" ELSE "failed"]
  /\ UNCHANGED << pvars, wvars, mvars, loaded, standardPackagesMutex, query, lookupOk >>

\* loadStandardPackages, in the loop: standardPackagesMutex.Lock()
TaskLock(t) ==
  /\ lpc[t] = "lock"
  /\ Lock(t)
  /\ lpc' = [lpc EXCEPT ![t] = "store"]
  /\ UNCHANGED << pvars, wvars, mvars, loaded, query, lookupOk >>

\* standardPackages[p.PkgPath] = struct{}{}
TaskStore(t) ==
  /\ lpc[t] = "store"
  /\ standardPackages' = standardPackages \cup { StdList[loaded[t] + 1] }
  /\ lpc' = [lpc EXCEPT ![t] = "unlock"]
  /\ UNCHANGED << args, moduleName, disk, order, localPrefix, list, write, src,
                  node, convertedImports, convertedToGo, res, err, stdout, wrote,
                  pc, run, prev, wvars, mvars, loaded, standardPackagesMutex,
                  query, lookupOk >>

\* standardPackagesMutex.Unlock(), and the next package; after the last one
\* loadStandardPackages returns nil and process goes on to the imports (or
\* returns, when the file has none to ask about).
TaskUnlock(t) ==
  /\ lpc[t] = "unlock"
  /\ Unlock(t)
  /\ loaded' = [loaded EXCEPT ![t] = @ + 1]
  /\ lpc' = [lpc EXCEPT ![t] = IF loaded[t] + 1 < Len(StdList) THEN "lock"
                               ELSE IF query[t] = << >> THEN "done"
                               ELSE "isLock"]
  /\ UNCHANGED << pvars, wvars, mvars, query, lookupOk >>

\* isStandardPackage: standardPackagesMutex.Lock()
TaskIsLock(t) ==
  /\ lpc[t] = "isLock"
  /\ Lock(t)
  /\ lpc' = [lpc EXCEPT ![t] = "read"]
  /\ UNCHANGED << pvars, wvars, mvars, loaded, query, lookupOk >>

\* _, ok := standardPackages[pkg]
TaskRead(t) ==
  /\ lpc[t] = "read"
  /\ lookupOk' = [lookupOk EXCEPT ![t] =
                    Append(@, << Head(query[t]), isStandardPackage(standardPackages, Head(query[t])) >>)]
  /\ lpc' = [lpc EXCEPT ![t] = "isUnlock"]
  /\ UNCHANGED << pvars, wvars, mvars, loaded, standardPackagesMutex, query >>

\* standardPackagesMutex.Unlock() and return ok; the next import, or the
\* rest of process.
TaskIsUnlock(t) ==
  /\ lpc[t] = "isUnlock"
  /\ Unlock(t)
  /\ query' = [query EXCEPT ![t] = Tail(@)]
  /\ lpc' = [lpc EXCEPT ![t] = IF Tail(query[t]) = << >> THEN "done" ELSE "isLock"]
  /\ UNCHANGED << pvars, wvars, mvars, loaded, lookupOk >>

NextLoad ==
  \/ \E t \in Tasks : TaskLoad(t)
  \/ \E t \in Tasks : TaskLock(t)
  \/ \E t \in Tasks : TaskStore(t)
  \/ \E t \in Tasks : TaskUnlock(t)
  \/ \E t \in Tasks : TaskIsLock(t)
  \/ \E t \in Tasks : TaskRead(t)
  \/ \E t \in Tasks : TaskIsUnlock(t)

SpecLoad == InitLoad /\ [][NextLoad]_vars

(***************************************************************************)
(* Notions the properties are stated with.                                 *)
(***************************************************************************)

Range(q) == { q[i] : i \in 1..Len(q) }

\* sub occurs in s.
Contains(s, sub) ==
  \E i \in 1..(Len(s) - Len(sub) + 1) : SubSeq(s, i, i + Len(sub) - 1) = sub

\* s <= t in Go's order on strings.
StrLeq(s, t) == s = t \/ StrLess(s, t)

Unquote(path) == SubSeq(path, 2, Len(path) - 1)

\* A string is a permutation of i, e, l.
IsOrderPermutation(o) ==
  Len(o) = 3 /\ { Char(o, k) : k \in 1..3 } = { "i", "e", "l" }

\* The category the classification rules give an import: "l" local,
\* "i" standard, "e" third-party.
ClassOf(imp) ==
  IF localPrefix # "" /\ Contains(imp.path, localPrefix) THEN "l"
  ELSE IF Unquote(imp.path) \in standardPackages THEN "i"
  ELSE "e"

\* The slot the order string gives a category: the position of its character.
SlotOf(c) == CHOOSE k \in 1..3 : Char(order, k) = c

ImportsOfClass(c) == LET InClass(imp) == ClassOf(imp) = c IN SelectSeq(node.imports, InClass)

\* The parts of a string between commas.
RECURSIVE SplitComma(_)
SplitComma(s) ==
  LET i == Index(s, ",")
  IN  IF i = 0 THEN { s } ELSE { SubSeq(s, 1, i - 1) } \cup SplitComma(Drop(s, i))

\* The runs of non-blank lines of a sequence of lines.
RECURSIVE LineRuns(_, _)
LineRuns(lines, cur) ==
  IF lines = << >> THEN (IF cur = << >> THEN << >> ELSE << cur >>)
  ELSE IF Head(lines) = "" THEN (IF cur = << >> THEN << >> ELSE << cur >>) \o LineRuns(Tail(lines), << >>)
  ELSE LineRuns(Tail(lines), Append(cur, Head(lines)))

\* The lines of the rendered block between "import (" and ")".
BlockBody == LET ls == SplitLines(convertedToGo) IN SubSeq(ls, 2, Len(ls) - 1)

BlockGroups == LineRuns(BlockBody, << >>)

LineOf(imp) == "\t" \o (IF imp.localReference = "" THEN "" ELSE imp.localReference \o " ") \o imp.path

LineClass(line) == ClassOf(CHOOSE m \in Range(node.imports) : LineOf(m) = line)

RECURSIVE JoinLines(_)
JoinLines(ls) ==
  IF ls = << >> THEN ""
  ELSE IF Len(ls) = 1 THEN ls[1]
  ELSE ls[1] \o "\n" \o JoinLines(Tail(ls))

\* The non-empty categories in slot order, as runs of lines with one blank
\* line between consecutive runs.
RECURSIVE RunsWithBlanks(_)
RunsWithBlanks(cats) ==
  IF cats = << >> THEN << >>
  ELSE LET first == [i \in 1..Len(Head(cats)) |-> LineOf(Head(cats)[i])]
           rest  == RunsWithBlanks(Tail(cats))
       IN  IF first = << >> THEN rest
           ELSE IF rest = << >> THEN first
           ELSE first \o << "" >> \o rest

\* process was called in this run and has returned.
ProcessReturned == pc \in { "compare", "exit" } /\ ~HasPrefix(err, "open: ")

\* The bytes read hold no import declaration and are valid Go.
NoImportDeclarations(text) ==
  LET parsed == ParseFile(text) IN parsed.err = "" /\ parsed.node.imports = << >>

(***************************************************************************)
(* The properties.                                                         *)
(***************************************************************************)

\* C1: idempotence of process: when the previous run's process succeeded and
\* this run's process was given its output, this run's process succeeds too
\* and returns its input byte for byte.
C1_Idempotence ==
  (prev.run >= 1 /\ prev.err = "" /\ src = prev.res /\ ProcessReturned
     /\ ~HasPrefix(err, "load: ") /\ ~HasPrefix(err, "write: "))
  => (err = "" /\ res = src)

\* C2: once walkDir has returned, every goroutine of a file has run to its
\* end, the returned value holds the error of every file that failed, and
\* main fails exactly when some file failed.
C2_ErrorAggregation ==
  wpc \in { "main", "exited" }
  => /\ \A f \in Files : tpc[f] = "done"
     /\ \A f \in Files : fileFails[f] => (walkRet # 0 /\ f \in Range(heap[walkRet]))
     /\ wpc = "exited" => (fatal <=> \E f \in Files : fileFails[f])

C4_CommaSeparatedPrefixes ==
  pc = "sort"
  => \A imp \in Range(node.imports) :
       (\E part \in SplitComma(localPrefix) : part # "" /\ Contains(imp.path, part))
       => imp \in Range(convertedImports[SlotOf("l")])

\* C5: category sequencing: the groups of the rendered block are the
\* non-empty categories in the sequence of the order string's characters.
C5_CategorySequencing ==
  pc = "replace"
  => LET groups   == BlockGroups
         NonEmpty(c) == ImportsOfClass(c) # << >>
         expected == SelectSeq(<< Char(order, 1), Char(order, 2), Char(order, 3) >>, NonEmpty)
     IN  /\ Len(groups) = Len(expected)
         /\ \A k \in 1..Len(groups) :
              \A i \in 1..Len(groups[k]) : LineClass(groups[k][i]) = expected[k]

C5_Witness ==
  /\ pc = "replace"
  /\ order = "lei"
  /\ Len(BlockGroups) = 3
  /\ LineClass(BlockGroups[1][1]) = "l"
  /\ LineClass(BlockGroups[3][1]) = "i"

\* C6: sort order within a category: after sortImports adjacent records of a
\* category have path[i] <= path[i+1], and equal paths have ascending
\* aliases, the empty alias first.
C6_SortedWithinCategory ==
  pc = "togo"
  => \A x \in 1..3 : \A i \in 1..(Len(convertedImports[x]) - 1) :
       LET a == convertedImports[x][i]
           b == convertedImports[x][i + 1]
       IN  /\ StrLeq(a.path, b.path)
           /\ a.path = b.path => StrLeq(a.localReference, b.localReference)
           /\ (a.path = b.path /\ b.localReference = "") => a.localReference = ""

C6_Witness ==
  /\ pc = "togo"
  /\ \E i \in 1..(Len(node.imports) - 1) :
       /\ node.imports[i].path = node.imports[i + 1].path
       /\ node.imports[i].localReference = "Z"
       /\ node.imports[i + 1].localReference = ""
  /\ \E x \in 1..3 : \E i \in 1..(Len(convertedImports[x]) - 1) :
       /\ convertedImports[x][i].path = convertedImports[x][i + 1].path
       /\ convertedImports[x][i].localReference = ""
       /\ convertedImports[x][i + 1].localReference = "Z"

\* C7: canonical block rendering: the block is the line "import (", the
\* non-empty categories as runs of one line per record (alias, space, path)
\* with exactly one blank line between consecutive runs, and the line ")";
\* an empty category contributes no line.
C7_CanonicalBlock ==
  pc = "replace"
  => LET ls == SplitLines(convertedToGo)
     IN  /\ ls = << "import (" >> \o RunsWithBlanks(convertedImports) \o << ")" >>
         /\ convertedToGo = JoinLines(ls)
         /\ ls[2] # "" /\ ls[Len(ls) - 1] # ""
         /\ \A i \in 1..(Len(ls) - 1) : ~(ls[i] = "" /\ ls[i + 1] = "")

C7_Witness ==
  /\ pc = "replace"
  /\ convertedImports[1] # << >>
  /\ convertedImports[2] = << >>
  /\ convertedImports[3] # << >>
  /\ \E imp \in Range(convertedImports[1]) : imp.localReference # ""
  /\ Len(BlockGroups) = 2

\* C8: splice position and frame: the output of replaceImports is the
\* comments before the package clause, the package clause line, a blank
\* line, the new block, a blank line, and the declarations other than
\* imports with their comments, unchanged and in their order.
C8_SplicePosition ==
  (pc = "compare" /\ node.imports # << >>)
  => res = node.head \o "package " \o node.name \o "\n\n" \o convertedToGo \o "\n"
           \o PrintDecls(DeleteImportDecls(ParseFile(src).node.decls), "")

C10_OrderFallback ==
  /\ pc # "main" =>
       order = (IF IsOrderPermutation(args.o) THEN args.o ELSE DefaultOrder)
  /\ ~HasPrefix(err, "order: ") /\ ~HasPrefix(err, "panic: ")
  /\ (pc = "compare" /\ ~IsOrderPermutation(args.o)) =>
       [res |-> res, err |-> err] = process(src, DefaultOrder, localPrefix, standardPackages)

C10_Witness ==
  /\ pc = "compare"
  /\ args.o = "ii e"
  /\ order = DefaultOrder
  /\ err = ""
  /\ res # src

\* A path at which walkDir or processFile is to run, and one on which the
\* program fails.
PathExists(k) == k # "missing"

PathFails(k) == k \in { "missing", "fileFails", "dirFails" }

\* C11: every path argument is processed: once goImportsSortMain has
\* returned, every path that exists and has no failing path before it was
\* given to walkDir or to processFile.
C11_EveryPathProcessed ==
  mpc \in { "returned", "exited" }
  => \A i \in 1..Len(paths) :
       (PathExists(paths[i]) /\ \A j \in 1..(i - 1) : ~PathFails(paths[j]))
       => i \in Range(processed)

\* How often a record occurs in a sequence.
Occurrences(q, m) == Cardinality({ i \in 1..Len(q) : q[i] = m })

\* C12: classification partition: under an order that is a permutation of
\* i, e, l the three pointers of convertImportsToSlice refer to three
\* distinct slots, every extracted import is in exactly one slot, as often
\* as the file has it, and countImports is the number of extracted imports.
C12_ClassificationPartition ==
  (pc = "sort" /\ IsOrderPermutation(order))
  => LET p == BucketPointers(order, 1, InitialPointers)
     IN  /\ p.err = ""
         /\ Cardinality({ p.inbuild, p.external, p.local }) = 3
         /\ countImports(convertedImports) = Len(node.imports)
         /\ \A m \in Range(node.imports) :
              /\ Cardinality({ x \in 1..3 : m \in Range(convertedImports[x]) }) = 1
              /\ \E x \in 1..3 :
                   Occurrences(convertedImports[x], m) = Occurrences(node.imports, m)
         /\ \A x \in 1..3 : Range(convertedImports[x]) \subseteq Range(node.imports)

C12_Witness ==
  /\ pc = "sort"
  /\ order = "eli"
  /\ Len(node.imports) = 3
  /\ \E i, j \in 1..3 :
       /\ node.imports[i].path = node.imports[j].path
       /\ node.imports[i].localReference = ""
       /\ node.imports[j].localReference = "Z"
  /\ Len(convertedImports[1]) = 2
  /\ Len(convertedImports[2]) = 1
  /\ countImports(convertedImports) = 3

\* The task is between Lock and Unlock at an access of the map.
AccessesMap(t) == lpc[t] \in { "store", "read" }

\* The task's own loadStandardPackages has returned nil.
LoadReturned(t) == lpc[t] \in { "isLock", "read", "isUnlock", "done" } /\ loaded[t] = Len(StdList)

\* C13: redundant concurrent loading is safe: a task accessing the
\* standardPackages map holds the mutex, so no two tasks access it at once;
\* what a load has stored stays in the map and nothing else is ever in it;
\* once some task's load has returned the map is the standard-package set,
\* whatever the other loads do; and every lookup answers true exactly for
\* the standard packages.
C13_ConcurrentLoadSafe ==
  /\ \A t \in Tasks : AccessesMap(t) => standardPackagesMutex = t
  /\ \A t, u \in Tasks : (AccessesMap(t) /\ AccessesMap(u)) => t = u
  /\ \A t \in Tasks : \A k \in 1..loaded[t] : StdList[k] \in standardPackages
  /\ standardPackages \subseteq Range(StdList)
  /\ \A t \in Tasks : LoadReturned(t) => standardPackages = Range(StdList)
  /\ \A t \in Tasks : \A i \in 1..Len(lookupOk[t]) :
       lookupOk[t][i][2] = (lookupOk[t][i][1] \in Range(StdList))

C13_Witness ==
  /\ lpc[1] = "isUnlock"
  /\ lookupOk[1] = << << "lib/y", FALSE >>, << "os", TRUE >> >>
  /\ lpc[2] = "lock"
  /\ loaded[2] = 1

====
